---- MODULE Spec2Model ----
(***************************************************************************)
(* CheckDirectoriesJob (aind_data_upload/check_directories_job.py): the    *)
(* job that scans the sources of an upload job configuration for broken    *)
(* symbolic links, first sequentially while it compiles the list of        *)
(* directories, then in dask partitions.                                   *)
(*                                                                         *)
(* A path is a sequence of names: <<"root", "A", "x">> is /data/root/A/x,  *)
(* <<"ephys">> is /data/ephys and <<"meta">> is the metadata directory.    *)
(* The filesystem fs maps every path of the universe to what lstat() sees  *)
(* there.  A symbolic link to a directory has, as its children, the        *)
(* entries of its target, so l/f is the entry f seen through the link l.   *)
(***************************************************************************)
EXTENDS Integers, Sequences, FiniteSets, TLC

\* ---------------------------------------------------------------- bounds
MaxPartitions == 2   \* n_partitions ranges over 1..MaxPartitions
MaxLevels == 2       \* num_of_smart_spim_levels ranges over 0..MaxLevels
MaxNest == 2         \* directories nested above a placed entry: 0..MaxNest

\* ------------------------------------------------------ names and paths
None == <<>>         \* Python's None for an optional path; no path is empty

\* The order in which a directory listing yields its names.  os.scandir
\* promises no order; the model lists in ASCII order.
NameOrder == <<".h", ".h.json", "A", "B", "d", "f", "m.json", "x", "y">>

Names == {NameOrder[i] : i \in 1..Len(NameOrder)}

\* fnmatch of a name against the pattern "*" as glob applies it: a leading
\* dot is matched only by a pattern that starts with a dot.
FnMatchStar(name) == name \notin {".h", ".h.json"}

\* fnmatch of a name against "*.json" as glob applies it.
FnMatchJson(name) == name \in {"m.json"}

Join(path, name) == Append(path, name)

IsProperPrefix(p, q) == Len(p) < Len(q) /\ SubSeq(q, 1, Len(p)) = p

RECURSIVE Nested(_, _)
\* base/d/d/.../d with k levels of d
Nested(base, k) == IF k = 0 THEN base ELSE Nested(Join(base, "d"), k - 1)

MetaDir == <<"meta">>
EphysSource == <<"ephys">>
SpimSource == <<"root">>

\* The tree every filesystem of the model starts from: /data/root/{A,B}/{x,y},
\* /data/ephys and the metadata directory with one json file.
BaseDirs ==
    {MetaDir, EphysSource, SpimSource,
     <<"root", "A">>, <<"root", "B">>,
     <<"root", "A", "x">>, <<"root", "A", "y">>,
     <<"root", "B", "x">>, <<"root", "B", "y">>}

BaseFiles == {<<"meta", "m.json">>}

\* The paths at which a filesystem of the model may differ from the base tree.
PlacePaths ==
    {<<"meta", "m.json">>, <<"meta", ".h.json">>,
     EphysSource, SpimSource,
     <<"root", "A">>, <<"root", ".h">>, <<"root", "A", "x">>,
     <<"root", "B", "y", "f">>}
    \cup {Nested(EphysSource, k) : k \in 1..MaxNest}
    \cup {Join(Nested(EphysSource, k), "f") : k \in 0..MaxNest}
    \cup {Nested(<<"root", "A", "x">>, k) : k \in 1..MaxNest}
    \cup {Join(Nested(<<"root", "A", "x">>, k), "f") : k \in 0..MaxNest}

Prefixes(p) == {SubSeq(p, 1, i) : i \in 1..Len(p)}

Universe == UNION {Prefixes(p) : p \in BaseDirs \cup BaseFiles \cup PlacePaths}

\* What lstat() can report for a path.
Kinds ==
    {"dir", "file", "other",
     "symlink_dir", "symlink_file", "symlink_other", "symlink_broken",
     "absent"}

\* The filesystem with the entries of P placed on the base tree; the parents
\* of a placed entry exist as directories unless P places them too.
FsOf(P) ==
    [p \in Universe |->
        IF \E r \in P : r.path = p
        THEN (CHOOSE r \in P : r.path = p).kind
        ELSE IF \E r \in P : IsProperPrefix(p, r.path) /\ r.kind # "absent"
        THEN "dir"
        ELSE IF p \in BaseDirs THEN "dir"
        ELSE IF p \in BaseFiles THEN "file"
        ELSE "absent"]

\* Where a second entry, a broken link, may be placed: at a level the
\* SmartSPIM expansion checks, in a second directory to scan, and right below
\* the first nested directory of each tree.
SecondPaths ==
    {<<"root", "A">>, <<"root", "B", "y", "f">>,
     Join(Nested(EphysSource, 1), "f"),
     Join(Nested(<<"root", "A", "x">>, 1), "f")}

\* One entry of any kind; or a link to a directory, a broken link or a
\* special file, together with a broken link elsewhere.
Placements ==
    {{[path |-> p, kind |-> k]} : p \in PlacePaths, k \in Kinds}
    \cup {P \in {{[path |-> p, kind |-> k],
                   [path |-> q, kind |-> "symlink_broken"]} :
                     p \in PlacePaths,
                     k \in {"symlink_dir", "symlink_broken", "other"},
                     q \in SecondPaths} :
            Cardinality({r.path : r \in P}) = 2}

VARIABLES
    fs,                     \* the filesystem, read-only during the run
    upload_configs,         \* job_settings.upload_configs
    n_partitions,           \* job_settings.n_partitions
    num_of_smart_spim_levels,
    pc,                     \* position of run_job
    modality_index,         \* next modality of the loop of line 125
    directories_to_check,   \* the list of line 117
    discovery_checked,      \* paths _check_path was called with, lines 123-142
    partitions,             \* the partitions of the dask bag
    task_status,            \* per partition: "running", "done", "failed"
    task_index,             \* per partition: next directory of the loop of 165
    task_checked,           \* per partition: paths _check_path was called with
    task_error,             \* per partition: the path its error carries
    error                   \* the path the error raised by run_job carries

vars ==
    <<fs, upload_configs, n_partitions, num_of_smart_spim_levels, pc,
      modality_index, directories_to_check, discovery_checked, partitions,
      task_status, task_index, task_checked, task_error, error>>

settings == <<fs, upload_configs, n_partitions, num_of_smart_spim_levels>>

\* ------------------------------------------------------- the filesystem
\* lstat(path): the entry itself, reached through directories and links to
\* directories only.
LStat(path) ==
    IF path \in Universe
       /\ \A i \in 1..(Len(path) - 1) :
              fs[SubSeq(path, 1, i)] \in {"dir", "symlink_dir"}
    THEN fs[path]
    ELSE "absent"

\* os.path.isdir, os.path.isfile and os.path.exists follow symbolic links.
isdir(path) == LStat(path) \in {"dir", "symlink_dir"}

isfile(path) == LStat(path) \in {"file", "symlink_file"}

islink(path) ==
    LStat(path) \in
        {"symlink_dir", "symlink_file", "symlink_other", "symlink_broken"}

exists(path) == LStat(path) \notin {"absent", "symlink_broken"}

\* The entries os.scandir(path) yields, in listing order; the empty sequence
\* stands for the OSError of a path that is not a directory.
scandir(path) ==
    IF isdir(path)
    THEN LET all == [i \in 1..Len(NameOrder) |-> Join(path, NameOrder[i])]
             present(q) == LStat(q) # "absent"
         IN SelectSeq(all, present)
    ELSE <<>>

RECURSIVE Concat(_)
Concat(seqs) == IF seqs = <<>> THEN <<>> ELSE Head(seqs) \o Concat(Tail(seqs))

\* ---------------------------------------------------------- _check_path
Ok == <<>>           \* no error raised; no path is empty

\* _check_path without the test of line 99 that the target of a link exists.
_check_path_any_link(path) ==
    IF ~(isdir(path) \/ isfile(path) \/ islink(path))
    THEN path
    ELSE Ok

\* Lines 96-103: Ok when the path is accepted, else the path the
\* FileNotFoundError names.
_check_path(path) ==
    IF ~(isdir(path) \/ isfile(path) \/ (islink(path) /\ exists(path)))
    THEN path
    ELSE Ok

\* A loop that goes on after a call that raises.
CheckedAll(paths) == paths

\* The calls of _check_path a sequential loop over paths makes: it stops at
\* the first call that raises.
RECURSIVE CheckedPrefix(_)
CheckedPrefix(paths) ==
    IF paths = <<>> THEN <<>>
    ELSE IF _check_path(Head(paths)) # Ok THEN <<Head(paths)>>
    ELSE <<Head(paths)>> \o CheckedPrefix(Tail(paths))

\* The error of such a loop: the path of its last call when that call raised.
Raised(checked) ==
    IF checked # <<>> /\ _check_path(checked[Len(checked)]) # Ok
    THEN checked[Len(checked)]
    ELSE Ok

\* ------------------------------------------------------------------ glob
Last(path) == path[Len(path)]

\* glob(f"{base}/*/.../*") with k >= 1 stars (lines 134 and 138).  Every
\* level but the last keeps the directories only, links to directories
\* included; a base that cannot be listed yields nothing.
RECURSIVE glob_stars(_, _, _)
glob_stars(base, k, dironly) ==
    LET dirs == IF k = 1 THEN <<base>> ELSE glob_stars(base, k - 1, TRUE)
        match(q) == FnMatchStar(Last(q)) /\ (dironly => isdir(q))
        list(d) == SelectSeq(scandir(d), match)
    IN Concat([i \in 1..Len(dirs) |-> list(dirs[i])])

\* glob(f"{metadata_dir_path}/*.json") (line 122)
glob_json(dir) ==
    LET match(q) == FnMatchJson(Last(q))
    IN SelectSeq(scandir(dir), match)

\* --------------------------------------------------------------- os.walk
\* os.walk that yields the top directory only.
walk_top_only(top) ==
    LET nondir(q) == ~isdir(q)
    IN SelectSeq(scandir(top), nondir)

\* os.walk with followlinks True.
RECURSIVE walk_followlinks(_)
walk_followlinks(top) ==
    LET entries == scandir(top)
        nondir(q) == ~isdir(q)
        dirs == SelectSeq(entries, isdir)
    IN SelectSeq(entries, nondir)
         \o Concat([i \in 1..Len(dirs) |-> walk_followlinks(dirs[i])])

\* The paths line 173 builds from os.walk(top) (top-down, followlinks
\* False): the non-directories of top, then those of each subdirectory that
\* is not a symbolic link.  A top that cannot be listed yields nothing, as
\* os.walk ignores the error when onerror is None.
RECURSIVE walk_files(_)
walk_files(top) ==
    LET entries == scandir(top)
        nondir(q) == ~isdir(q)
        below(d) == IF islink(d) THEN <<>> ELSE walk_files(d)
        dirs == SelectSeq(entries, isdir)
    IN SelectSeq(entries, nondir)
         \o Concat([i \in 1..Len(dirs) |-> below(dirs[i])])

\* ------------------------------------------------------------ the inputs
SmartSpimEntry == [modality |-> "SPIM", source |-> SpimSource]

EphysEntry == [modality |-> "ecephys", source |-> EphysSource]

ModalityLists ==
    {<<SmartSpimEntry>>, <<EphysEntry>>, <<EphysEntry, SmartSpimEntry>>}

UploadConfigs ==
    [platform : {"SmartSPIM", "ecephys"},
     metadata_dir : {None, MetaDir},
     modalities : ModalityLists]

Init ==
    /\ fs \in {FsOf(P) : P \in Placements}
    /\ upload_configs \in UploadConfigs
    /\ n_partitions \in 1..MaxPartitions
    /\ num_of_smart_spim_levels \in 0..MaxLevels
    /\ pc = "metadata"
    /\ modality_index = 1
    /\ directories_to_check = <<>>
    /\ discovery_checked = <<>>
    /\ partitions = <<>>
    /\ task_status = <<>>
    /\ task_index = <<>>
    /\ task_checked = <<>>
    /\ task_error = <<>>
    /\ error = Ok

\* ------------------------------------------------------------- discovery
\* Lines 120-123: the json files of the metadata directory.
CheckMetadata ==
    /\ pc = "metadata"
    /\ LET globbed == IF upload_configs.metadata_dir # None
                      THEN glob_json(upload_configs.metadata_dir)
                      ELSE <<>>
           checked == CheckedPrefix(globbed)
       IN /\ discovery_checked' = discovery_checked \o checked
          /\ error' = Raised(checked)
          /\ pc' = IF Raised(checked) # Ok THEN "failed" ELSE "modalities"
    /\ UNCHANGED <<settings, modality_index, directories_to_check, partitions,
                   task_status, task_index, task_checked, task_error>>

\* A loop over the levels that checks nothing.
TopLevelsUnchecked(base, levels) == <<>>

\* Lines 132-135: the paths the loop over the levels hands to _check_path
\* when none of them raises.
RECURSIVE TopLevels(_, _)
TopLevels(base, levels) ==
    IF levels <= 0 THEN <<>>
    ELSE TopLevels(base, levels - 1) \o glob_stars(base, levels, FALSE)

\* Lines 138-142: the loop over the level below, from the state reached
\* after its first entries; it stops at the first _check_path that raises.
RECURSIVE Classify(_, _)
Classify(paths, acc) ==
    IF paths = <<>> THEN acc
    ELSE IF isdir(Head(paths))
    THEN Classify(Tail(paths),
                  [acc EXCEPT !.dirs = Append(@, Head(paths))])
    ELSE IF _check_path(Head(paths)) # Ok
    THEN [acc EXCEPT !.checked = Append(@, Head(paths)),
                     !.error = Head(paths)]
    ELSE Classify(Tail(paths),
                  [acc EXCEPT !.checked = Append(@, Head(paths))])

\* A SmartSPIM modality whose last of the levels is the one classified.
SmartSpimModalityLevelEarly(source_dir) ==
    LET levels == IF num_of_smart_spim_levels < 1
                  THEN 1 ELSE num_of_smart_spim_levels
        top == CheckedPrefix(TopLevels(source_dir, levels - 1))
        start == [dirs |-> <<>>, checked |-> top, error |-> Raised(top)]
    IN IF Raised(top) # Ok THEN start
       ELSE Classify(glob_stars(source_dir, levels, FALSE), start)

\* Lines 129-142: one SmartSPIM modality.
SmartSpimModality(source_dir) ==
    LET top == CheckedPrefix(TopLevels(source_dir, num_of_smart_spim_levels))
        start == [dirs |-> <<>>, checked |-> top, error |-> Raised(top)]
        levels == IF num_of_smart_spim_levels < 0
                  THEN 0 ELSE num_of_smart_spim_levels
    IN IF Raised(top) # Ok THEN start
       ELSE Classify(glob_stars(source_dir, levels + 1, FALSE), start)

\* Any other modality, with its source checked when it is appended.
GenericModalityChecked(source_dir) ==
    [dirs |-> IF _check_path(source_dir) # Ok THEN <<>> ELSE <<source_dir>>,
     checked |-> <<source_dir>>,
     error |-> _check_path(source_dir)]

\* Line 144: any other modality.
GenericModality(source_dir) ==
    [dirs |-> <<source_dir>>, checked |-> <<>>, error |-> Ok]

\* Line 129
IsSmartSpim(modality_config) ==
    /\ modality_config.modality = "SPIM"
    /\ upload_configs.platform = "SmartSPIM"

\* Lines 125-144: one iteration of the loop over the modalities.
CheckModality ==
    /\ pc = "modalities"
    /\ modality_index <= Len(upload_configs.modalities)
    /\ LET modality_config == upload_configs.modalities[modality_index]
           found == IF IsSmartSpim(modality_config)
                    THEN SmartSpimModality(modality_config.source)
                    ELSE GenericModality(modality_config.source)
       IN /\ discovery_checked' = discovery_checked \o found.checked
          /\ directories_to_check' = directories_to_check \o found.dirs
          /\ error' = found.error
          /\ pc' = IF found.error # Ok THEN "failed" ELSE "modalities"
    /\ modality_index' = modality_index + 1
    /\ UNCHANGED <<settings, partitions, task_status, task_index,
                   task_checked, task_error>>

\* ------------------------------------------------------------------ scan
\* A bag that keeps the first partition only.
from_sequence_first_chunk(seq, npartitions) ==
    LET partition_size == (Len(seq) + npartitions - 1) \div npartitions
    IN <<SubSeq(seq, 1, partition_size)>>

\* dask.bag.from_sequence(seq, npartitions) (line 187) for at most 100
\* elements: consecutive chunks of ceil(len / npartitions) elements, and one
\* empty partition for the empty sequence.
from_sequence(seq, npartitions) ==
    LET partition_size == (Len(seq) + npartitions - 1) \div npartitions
        count == IF Len(seq) = 0 THEN 1
                 ELSE (Len(seq) + partition_size - 1) \div partition_size
        low(i) == (i - 1) * partition_size + 1
        high(i) == IF i * partition_size < Len(seq)
                   THEN i * partition_size ELSE Len(seq)
    IN [i \in 1..count |-> SubSeq(seq, low(i), high(i))]

\* Lines 145 and 201-192: the list is returned and the bag is built; every
\* partition is one task.
CreateBag ==
    /\ pc = "modalities"
    /\ modality_index > Len(upload_configs.modalities)
    /\ partitions' = from_sequence(directories_to_check, n_partitions)
    /\ task_status' = [t \in DOMAIN partitions' |-> "running"]
    /\ task_index' = [t \in DOMAIN partitions' |-> 1]
    /\ task_checked' = [t \in DOMAIN partitions' |-> <<>>]
    /\ task_error' = [t \in DOMAIN partitions' |-> Ok]
    /\ pc' = "compute"
    /\ UNCHANGED <<settings, modality_index, directories_to_check,
                   discovery_checked, error>>

\* Lines 165-173: task t takes the next directory of its partition, or
\* returns when none is left.  A task that was started is not interrupted
\* when another one fails.
ProcessDirectory(t) ==
    /\ pc \in {"compute", "failed"}
    /\ t \in DOMAIN partitions
    /\ task_status[t] = "running"
    /\ IF task_index[t] > Len(partitions[t])
       THEN /\ task_status' = [task_status EXCEPT ![t] = "done"]
            /\ UNCHANGED <<task_index, task_checked, task_error>>
       ELSE LET directory == partitions[t][task_index[t]]
                checked == CheckedPrefix(walk_files(directory))
            IN /\ task_checked' =
                      [task_checked EXCEPT ![t] = @ \o checked]
               /\ task_error' = [task_error EXCEPT ![t] = Raised(checked)]
               /\ task_index' = [task_index EXCEPT ![t] = @ + 1]
               /\ task_status' =
                      [task_status EXCEPT
                          ![t] = IF Raised(checked) # Ok
                                 THEN "failed" ELSE "running"]
    /\ UNCHANGED <<settings, pc, modality_index, directories_to_check,
                   discovery_checked, partitions, error>>

\* Line 193: compute() raises the error of a task that failed.
ComputeRaises ==
    /\ pc = "compute"
    /\ \E t \in DOMAIN partitions :
          /\ task_status[t] = "failed"
          /\ error' = task_error[t]
    /\ pc' = "failed"
    /\ UNCHANGED <<settings, modality_index, directories_to_check,
                   discovery_checked, partitions, task_status, task_index,
                   task_checked, task_error>>

\* Lines 193-210: compute() returns when every task has returned.
ComputeReturns ==
    /\ pc = "compute"
    /\ \A t \in DOMAIN partitions : task_status[t] = "done"
    /\ pc' = "done"
    /\ UNCHANGED <<settings, modality_index, directories_to_check,
                   discovery_checked, partitions, task_status, task_index,
                   task_checked, task_error, error>>

Next ==
    \/ CheckMetadata
    \/ CheckModality
    \/ CreateBag
    \/ \E t \in DOMAIN partitions : ProcessDirectory(t)
    \/ ComputeRaises
    \/ ComputeReturns

Spec == Init /\ [][Next]_vars

\* ---------------------------------------------------- terms of the claims
Range(seq) == {seq[i] : i \in 1..Len(seq)}

\* A directory, a regular file, or a symbolic link whose target exists.
Acceptable(path) ==
    LStat(path) \in
        {"dir", "file", "symlink_dir", "symlink_file", "symlink_other"}

\* path lies in the tree of directory: below it, through directories that
\* are not symbolic links.
NestedUnder(path, directory) ==
    /\ IsProperPrefix(directory, path)
    /\ isdir(directory)
    /\ LStat(path) # "absent"
    /\ \A q \in Prefixes(path) :
          IsProperPrefix(directory, q) /\ q # path => LStat(q) = "dir"

\* The depth of an entry below a source.
Depth(path, source) == Len(path) - Len(source)

\* The entries of the filesystem below a source.
EntriesBelow(source) ==
    {p \in Universe : IsProperPrefix(source, p) /\ LStat(p) # "absent"}

\* Those a wildcard expansion reaches: no name from the source down starts
\* with a dot.
Expanded(source) ==
    {p \in EntriesBelow(source) :
        \A i \in (Len(source) + 1)..Len(p) : FnMatchStar(p[i])}

SmartSpimSources ==
    {upload_configs.modalities[i].source :
        i \in {j \in DOMAIN upload_configs.modalities :
                  IsSmartSpim(upload_configs.modalities[j])}}

DiscoveryReturned == pc \in {"compute", "done"} \/ partitions # <<>>

DiscoveryRaised == pc = "failed" /\ partitions = <<>>

Logs == {discovery_checked} \cup Range(task_checked)

\* ---------------------------------------------------------------- claims

\* C1: _check_path accepts a path that is a directory, a regular file or a
\* symbolic link whose target exists, and rejects every other path with an
\* error that carries exactly that path; so it does in every call the job
\* has made.  (The filesystem does not change during a run: the first
\* conjunct is evaluated where the run starts.)
C1_PathValidator ==
    /\ pc = "metadata" =>
          \A p \in Universe :
              _check_path(p) = IF Acceptable(p) THEN Ok ELSE p
    /\ \A i \in DOMAIN discovery_checked :
          Acceptable(discovery_checked[i])
              <=> ~(DiscoveryRaised /\ error = discovery_checked[i])
    /\ \A t \in DOMAIN task_checked : \A i \in DOMAIN task_checked[t] :
          Acceptable(task_checked[t][i])
              <=> task_error[t] # task_checked[t][i]

\* A dangling link was found by a task and the job failed with its path.
C1_Witness ==
    /\ pc = "failed"
    /\ LStat(error) = "symlink_broken"
    /\ \E t \in DOMAIN task_error : task_error[t] = error
    /\ \E p \in Range(discovery_checked) : LStat(p) = "dir"

\* C2: run_job never completes successfully when a source that it hands to
\* the scan does not exist: the walk of a missing directory is a failure.
C2_MissingSourceFails ==
    pc = "done" =>
        \A i \in DOMAIN upload_configs.modalities :
            upload_configs.modalities[i].source \in Range(directories_to_check)
                => LStat(upload_configs.modalities[i].source) # "absent"

\* C3: a broken link nested, at any depth, in the tree of a directory of the
\* list makes run_job fail, whatever the partition of that directory.
C3_NestedBrokenLinkFails ==
    pc = "done" =>
        ~\E d \in Range(directories_to_check), p \in Universe :
            NestedUnder(p, d) /\ LStat(p) = "symlink_broken"

\* The job failed on a broken link two directories below a directory of the
\* second partition.
C3_Witness ==
    /\ pc = "failed"
    /\ Len(partitions) = 2
    /\ task_status[1] = "done"
    /\ \E d \in Range(partitions[2]) :
          /\ NestedUnder(error, d)
          /\ LStat(error) = "symlink_broken"
          /\ Depth(error, d) >= 3

\* The entries discovery checks before the list is complete: the json files
\* of the metadata directory and the levels the SmartSPIM expansion checks.
MetadataEntries ==
    IF upload_configs.metadata_dir = None THEN {}
    ELSE {p \in EntriesBelow(upload_configs.metadata_dir) :
            /\ Depth(p, upload_configs.metadata_dir) = 1
            /\ FnMatchJson(Last(p))}

IntermediateEntries ==
    UNION {{p \in Expanded(s) : Depth(p, s) <= num_of_smart_spim_levels} :
             s \in SmartSpimSources}

ScanMustFail ==
    \E d \in Range(directories_to_check) :
        \E p \in Range(walk_files(d)) : ~Acceptable(p)

\* C5: whether the scan fails is decided by the list and the tree alone: it
\* is the same for every number of partitions and every interleaving of the
\* tasks.
C5_PartitioningKeepsOutcome ==
    /\ pc = "done" => ~ScanMustFail
    /\ pc = "failed" /\ DiscoveryReturned => ScanMustFail
    /\ pc = "compute" /\ (\A t \in DOMAIN partitions :
                              task_status[t] = "done") => ~ScanMustFail

\* The scan of two directories in two partitions failed on the second one.
C5_Witness ==
    /\ pc = "failed"
    /\ Len(directories_to_check) = 2
    /\ n_partitions = 2
    /\ Len(partitions) = 2
    /\ task_status[1] = "done"
    /\ task_status[2] = "failed"

\* The tree /data/root/{A,B}/{x,y} of directories, given to discovery as the
\* source of the only modality, a SmartSPIM one, with the given levels.
C6_Case(levels) ==
    /\ upload_configs.modalities = <<SmartSpimEntry>>
    /\ upload_configs.platform = "SmartSPIM"
    /\ num_of_smart_spim_levels = levels
    /\ \A p \in Universe :
          p[1] = "root" => fs[p] = IF p \in BaseDirs THEN "dir" ELSE "absent"

C6_Leaves ==
    {<<"root", "A", "x">>, <<"root", "A", "y">>,
     <<"root", "B", "x">>, <<"root", "B", "y">>}

C6_ReturnsLeaves ==
    /\ modality_index > 1 => ~DiscoveryRaised
    /\ DiscoveryReturned =>
          /\ Range(directories_to_check) = C6_Leaves
          /\ Len(directories_to_check) = 4

\* C6 as stated: with 2 levels, discovery of that tree returns the four
\* directories /data/root/{A,B}/{x,y} and raises nothing.
C6_TwoLevels == C6_Case(2) => C6_ReturnsLeaves

\* C6 amended: with 1 level, discovery of that tree returns the four
\* directories /data/root/{A,B}/{x,y} and raises nothing.
C6_OneLevel == C6_Case(1) => C6_ReturnsLeaves

\* Discovery of that tree with 1 level has returned its list.
C6_Witness ==
    /\ C6_Case(1)
    /\ pc = "compute"
    /\ Len(directories_to_check) = 4

Sources(n) == [i \in 1..n |-> upload_configs.modalities[i].source]

C7_OnlyGeneric ==
    /\ upload_configs.metadata_dir = None
    /\ SmartSpimSources = {}

C7_List ==
    C7_OnlyGeneric =>
        /\ discovery_checked = <<>>
        /\ ~DiscoveryRaised
        /\ directories_to_check = Sources(modality_index - 1)
        /\ DiscoveryReturned =>
              directories_to_check = Sources(Len(upload_configs.modalities))

C7_Step ==
    (/\ pc = "modalities"
     /\ modality_index' = modality_index + 1
     /\ ~IsSmartSpim(upload_configs.modalities[modality_index]))
    => /\ directories_to_check' =
             Append(directories_to_check,
                    upload_configs.modalities[modality_index].source)
       /\ discovery_checked' = discovery_checked
       /\ pc' = "modalities"

\* C7: the iteration of a modality that is not SmartSPIM appends its source
\* to the list and calls _check_path on nothing; with no metadata directory
\* and no SmartSPIM modality, discovery checks nothing, raises nothing and
\* returns the sources in the order of the configuration, whether they exist
\* or not.
C7_GenericSourceUnchecked == []C7_List /\ [][C7_Step]_vars

\* Discovery returned the two sources, the first of which does not exist.
C7_Witness ==
    /\ C7_OnlyGeneric
    /\ pc = "compute"
    /\ directories_to_check = <<EphysSource, SpimSource>>
    /\ LStat(EphysSource) = "absent"

\* C8 for one SmartSPIM source whose iteration raised nothing, over a set of
\* entries below it.
C8_Classified(source, entries) ==
    /\ \A p \in entries :
          Depth(p, source) \in 1..num_of_smart_spim_levels
              => p \in Range(discovery_checked)
    /\ \A p \in entries :
          Depth(p, source) = num_of_smart_spim_levels + 1
              => IF isdir(p)
                 THEN p \in Range(directories_to_check)
                 ELSE /\ p \in Range(discovery_checked)
                      /\ p \notin Range(directories_to_check)
    /\ \A d \in Range(directories_to_check) :
          IsProperPrefix(source, d) =>
              /\ Depth(d, source) = num_of_smart_spim_levels + 1
              /\ isdir(d)

C8_Done(i) ==
    /\ i < modality_index
    /\ IsSmartSpim(upload_configs.modalities[i])
    /\ ~DiscoveryRaised

\* C8: once the iteration of a SmartSPIM modality is over, every entry at
\* depths 1..L below its source has been checked, every directory at depth
\* L+1 is on the list and nothing else below the source is, and every other
\* entry at depth L+1 has been checked and is not on the list.
C8_EveryEntry ==
    \A i \in DOMAIN upload_configs.modalities :
        C8_Done(i) =>
            C8_Classified(upload_configs.modalities[i].source,
                          EntriesBelow(upload_configs.modalities[i].source))

\* C9: a task calls _check_path only on entries it reaches from a directory
\* of its partition through directories that are not symbolic links; so the
\* error of a scan never carries an entry that lies behind a link.
C9_LinksNotFollowed ==
    /\ \A t \in DOMAIN partitions : \A p \in Range(task_checked[t]) :
          \E d \in Range(partitions[t]) : NestedUnder(p, d)
    /\ pc = "failed" /\ DiscoveryReturned =>
          \E d \in Range(directories_to_check) : NestedUnder(error, d)

\* The job completed although a broken link lies behind a link to a
\* directory that a task met in its walk.
C9_Witness ==
    /\ pc = "done"
    /\ \E d \in Range(directories_to_check), l \in Universe, b \in Universe :
          /\ NestedUnder(l, d)
          /\ LStat(l) = "symlink_dir"
          /\ IsProperPrefix(l, b)
          /\ LStat(b) = "symlink_broken"

C10_Single ==
    /\ (pc = "failed") <=> (error # Ok)
    /\ pc = "failed" =>
          /\ ~Acceptable(error)
          /\ IF DiscoveryRaised
             THEN error = discovery_checked[Len(discovery_checked)]
             ELSE \E t \in DOMAIN partitions :
                    /\ task_status[t] = "failed"
                    /\ error = task_checked[t][Len(task_checked[t])]
    /\ \A log \in Logs : \A i \in 1..(Len(log) - 1) : Acceptable(log[i])

C10_Step ==
    error # Ok =>
        /\ error' = error
        /\ pc' = "failed"
        /\ discovery_checked' = discovery_checked

\* C10: run_job raises one error, which it never replaces; the path it
\* carries is an entry that _check_path rejects, the last one discovery or
\* a failed task checked; and in discovery and in every task no entry is
\* checked after the first one that is rejected.
C10_FailFast == []C10_Single /\ [][C10_Step]_vars

\* The job failed with the error of one task while another task had failed
\* on another entry.
C10_Witness ==
    /\ pc = "failed"
    /\ \E t \in DOMAIN partitions, u \in DOMAIN partitions :
          /\ task_status[t] = "failed"
          /\ task_status[u] = "failed"
          /\ task_error[t] = error
          /\ task_error[u] # error

====
